---- MODULE Spec2Model ----
(***************************************************************************)
(* Model of the media organiser of info.py / web.py: the filename          *)
(* sanitizer, the guessit-based classifier, the destination planning of    *)
(* process_directory and convert_file, and the per-file pipeline.          *)
(*                                                                         *)
(* Strings are sequences of one-character strings.  Python's None is the   *)
(* record None; a Python str s is Str(s).                                  *)
(***************************************************************************)
EXTENDS Integers, Sequences, FiniteSets, TLC

VARIABLES
    name,          \* sanitize_filename: the argument
    sanitized,     \* sanitize_filename(name), None before the call
    resanitized,   \* sanitize_filename(sanitize_filename(name)), None before
    info,          \* what guessit(filename) does for the file at hand
    movie_result,  \* outcome of a call of parse_movie_filename
    tv_result,     \* outcome of a call of parse_tv_show_filename
    is_movie_result,    \* outcome of a call of is_movie
    is_tv_show_result,  \* outcome of a call of is_tv_show
    entry,              \* the entry point driving the file: process_directory or convert_file
    source_suffix,      \* media_file.suffix / source_path.suffix of the file
    pc,                 \* where the entry point stands with the file
    destination_dir,    \* the directory planned for the file, <<>> before planning
    destination_file,   \* the file path planned, <<>> before planning
    made_dirs,          \* directories created by destination_dir.mkdir(parents=True)
    ffmpeg_dest,        \* the output path given to ffmpeg, <<>> while it was not run
    written,            \* the paths ffmpeg has written
    temp_cover,         \* whether the downloaded cover art file exists
    result,             \* how the entry point ended with the file
    other_info,             \* a second oracle outcome, planned beside info
    other_destination_file, \* its planned file path
    other_ffmpeg_dest,      \* its output path
    source_path,        \* the path of the file at hand
    log,                \* the steps taken and the messages reported for the file, in order
    ffmpeg_calls,       \* the ffmpeg commands run: input path and output path
    media_files,        \* process_directory: the list the loop goes through
    position,           \* process_directory: index in media_files of the file at hand
    outcomes,           \* process_directory: how each file handled so far ended
    tree,               \* the entries found recursively under the given directory
    input_kind,         \* what the given path is: "file", "directory", or "none" (no path given)
    generators,         \* convert_media: the generator objects convert_file returned
    web_output          \* convert_media: the kind of text it returned

sanVars == <<name, sanitized, resanitized>>

callVars == <<movie_result, tv_result, is_movie_result, is_tv_show_result>>

pipeVars == <<entry, source_suffix, pc, destination_dir, destination_file,
              made_dirs, ffmpeg_dest, written, temp_cover, result>>

otherVars == <<other_info, other_destination_file, other_ffmpeg_dest>>

runVars == <<source_path, log, ffmpeg_calls>>

batchVars == <<media_files, position, outcomes>>

treeVars == <<tree, input_kind>>

webVars == <<generators, web_output>>

vars == <<name, sanitized, resanitized, info,
          movie_result, tv_result, is_movie_result, is_tv_show_result,
          entry, source_suffix, pc, destination_dir, destination_file,
          made_dirs, ffmpeg_dest, written, temp_cover, result,
          other_info, other_destination_file, other_ffmpeg_dest,
          source_path, log, ffmpeg_calls, media_files, position, outcomes,
          tree, input_kind, generators, web_output>>

(***************************************************************************)
(* Values                                                                  *)
(***************************************************************************)
None == [none |-> TRUE, s |-> <<>>]

Str(s) == [none |-> FALSE, s |-> s]

\* Python truthiness of None or a str: None and "" are falsy
Truthy(v) == ~v.none /\ v.s # <<>>

RECURSIVE StringsUpTo(_, _)
StringsUpTo(alphabet, n) ==
    IF n = 0 THEN {<<>>}
    ELSE LET shorter == StringsUpTo(alphabet, n - 1)
         IN shorter \cup {Append(s, c) : s \in shorter, c \in alphabet}

(***************************************************************************)
(* Characters                                                              *)
(***************************************************************************)
Lowercase == {"a","b","c","d","e","f","g","h","i","j","k","l","m",
              "n","o","p","q","r","s","t","u","v","w","x","y","z"}

Uppercase == {"A","B","C","D","E","F","G","H","I","J","K","L","M",
              "N","O","P","Q","R","S","T","U","V","W","X","Y","Z"}

Digits == {"0","1","2","3","4","5","6","7","8","9"}

\* info.py:48  valid_chars = "-_.() " + ascii_letters + digits
valid_chars == {"-", "_", ".", "(", ")", " "} \cup Lowercase \cup Uppercase \cup Digits

\* what the regex class \s and str.strip() treat as whitespace
Whitespace == {" ", "\t", "\n", "\r", "\f"}

(***************************************************************************)
(* sanitize_filename (info.py:38-51)                                       *)
(***************************************************************************)
\* info.py:49  ''.join(c if c in valid_chars else ' ' for c in name)
ReplaceInvalid(s) ==
    [i \in 1..Len(s) |-> IF s[i] \in valid_chars THEN s[i] ELSE " "]

\* re.sub(r'\s+', ' ', s): every maximal run of whitespace becomes one space
RECURSIVE CollapseWhitespace(_)
CollapseWhitespace(s) ==
    IF s = <<>> THEN <<>>
    ELSE IF Head(s) \in Whitespace
         THEN IF Len(s) >= 2 /\ s[2] \in Whitespace
              THEN CollapseWhitespace(Tail(s))
              ELSE <<" ">> \o CollapseWhitespace(Tail(s))
         ELSE <<Head(s)>> \o CollapseWhitespace(Tail(s))

RECURSIVE LStrip(_)
LStrip(s) ==
    IF s # <<>> /\ Head(s) \in Whitespace THEN LStrip(Tail(s)) ELSE s

RECURSIVE RStrip(_)
RStrip(s) ==
    IF s # <<>> /\ s[Len(s)] \in Whitespace
    THEN RStrip(SubSeq(s, 1, Len(s) - 1))
    ELSE s

\* str.strip()
Strip(s) == RStrip(LStrip(s))

\* a slip that trims the raw name first and omits the trim after collapsing
sanitize_filename_TrimFirst(s) == CollapseWhitespace(ReplaceInvalid(Strip(s)))

\* a slip that drops the whitespace collapse of line 50
sanitize_filename_NoCollapse(s) == Strip(ReplaceInvalid(s))

sanitize_filename(s) == Strip(CollapseWhitespace(ReplaceInvalid(s)))

(***************************************************************************)
(* The guess oracle: guessit(filename) (info.py:61, 85).  It either raises *)
(* or returns a mapping in which every key may be absent.  A value is      *)
(* absent, an int or a str.                                                *)
(***************************************************************************)
Absent == [tag |-> "absent", n |-> 0, s |-> <<>>]

IntVal(n) == [tag |-> "int", n |-> n, s |-> <<>>]

StrVal(s) == [tag |-> "str", n |-> 0, s |-> s]

\* dict.get(key, default)
Get(v, default) == IF v.tag = "absent" THEN default ELSE v

DigitChar(d) == <<"0","1","2","3","4","5","6","7","8","9">>[d + 1]

RECURSIVE NatToStr(_)
NatToStr(n) ==
    IF n < 10 THEN <<DigitChar(n)>>
    ELSE NatToStr(n \div 10) \o <<DigitChar(n % 10)>>

\* str(v) of an int or a str
PyStr(v) == IF v.tag = "int" THEN NatToStr(v.n) ELSE v.s

RECURSIVE Zeros(_)
Zeros(k) == IF k <= 0 THEN <<>> ELSE <<"0">> \o Zeros(k - 1)

\* str.zfill(width): pads on the left, after a leading sign
zfill(s, width) ==
    IF Len(s) >= width THEN s
    ELSE IF s # <<>> /\ s[1] \in {"+", "-"}
         THEN <<s[1]>> \o Zeros(width - Len(s)) \o Tail(s)
         ELSE Zeros(width - Len(s)) \o s

\* info.py:90-91  the width given to zfill
PadWidth == 2

\* str.replace('.', ' ')
ReplaceDots(s) == [i \in 1..Len(s) |-> IF s[i] = "." THEN " " ELSE s[i]]

NoInfo ==
    [raises |-> FALSE, type |-> "none", title |-> Absent, year |-> Absent,
     season |-> Absent, episode |-> Absent, episode_title |-> Absent]

(***************************************************************************)
(* parse_movie_filename (info.py:53-74)                                    *)
(* A result is [called, raised, movie_name, year]; (None, None) is         *)
(* Unresolved.                                                             *)
(***************************************************************************)
MovieNotCalled == [called |-> FALSE, raised |-> FALSE, movie_name |-> None, year |-> None]

MovieReturn(n, y) == [called |-> TRUE, raised |-> FALSE, movie_name |-> n, year |-> y]

MovieRaise == [called |-> TRUE, raised |-> TRUE, movie_name |-> None, year |-> None]

\* a slip that tests the raw title, before the dots are replaced and the
\* result is trimmed
parse_movie_try_RawCheck(i) ==
    IF i.raises THEN MovieRaise
    ELSE IF i.type # "movie" THEN MovieReturn(None, None)
    ELSE LET raw == Get(i.title, StrVal(<<>>)).s
             movie_name == Strip(ReplaceDots(raw))
             year == PyStr(Get(i.year, StrVal(<<>>)))
         IN IF raw = <<>> \/ year = <<>>
            THEN MovieReturn(None, None)
            ELSE MovieReturn(Str(movie_name), Str(year))

\* info.py:61-71  the body of the try block
parse_movie_try(i) ==
    IF i.raises THEN MovieRaise
    ELSE IF i.type # "movie" THEN MovieReturn(None, None)
    ELSE LET movie_name == Strip(ReplaceDots(Get(i.title, StrVal(<<>>)).s))
             year == PyStr(Get(i.year, StrVal(<<>>)))
         IN IF movie_name = <<>> \/ year = <<>>
            THEN MovieReturn(None, None)
            ELSE MovieReturn(Str(movie_name), Str(year))

\* a slip that leaves the except clause of lines 72-74 out
parse_movie_filename_NoExcept(i) == parse_movie_try(i)

\* info.py:72-74  except Exception: return None, None
parse_movie_filename(i) ==
    LET r == parse_movie_try(i)
    IN IF r.raised THEN MovieReturn(None, None) ELSE r

(***************************************************************************)
(* parse_tv_show_filename (info.py:76-101)                                 *)
(***************************************************************************)
TvNotCalled ==
    [called |-> FALSE, raised |-> FALSE, show_name |-> None, season |-> None,
     episode |-> None, episode_name |-> None]

TvReturn(sh, se, ep, en) ==
    [called |-> TRUE, raised |-> FALSE, show_name |-> sh, season |-> se,
     episode |-> ep, episode_name |-> en]

TvNone == TvReturn(None, None, None, None)

TvRaise ==
    [called |-> TRUE, raised |-> TRUE, show_name |-> None, season |-> None,
     episode |-> None, episode_name |-> None]

\* a slip that leaves the zfill of lines 90-91 out
parse_tv_show_try_NoPad(i) ==
    IF i.raises THEN TvRaise
    ELSE IF i.type # "episode" THEN TvNone
    ELSE LET show_name == Strip(ReplaceDots(Get(i.title, StrVal(<<>>)).s))
             season == PyStr(Get(i.season, StrVal(<<"0">>)))
             episode == PyStr(Get(i.episode, StrVal(<<"0">>)))
             episode_name == Strip(ReplaceDots(Get(i.episode_title, StrVal(<<>>)).s))
         IN IF show_name = <<>> \/ season = <<>> \/ episode = <<>>
            THEN TvNone
            ELSE TvReturn(Str(show_name), Str(season), Str(episode), Str(episode_name))

\* info.py:85-98  the body of the try block
parse_tv_show_try(i) ==
    IF i.raises THEN TvRaise
    ELSE IF i.type # "episode" THEN TvNone
    ELSE LET show_name == Strip(ReplaceDots(Get(i.title, StrVal(<<>>)).s))
             season == zfill(PyStr(Get(i.season, StrVal(<<"0">>))), PadWidth)
             episode == zfill(PyStr(Get(i.episode, StrVal(<<"0">>))), PadWidth)
             episode_name == Strip(ReplaceDots(Get(i.episode_title, StrVal(<<>>)).s))
         IN IF show_name = <<>> \/ season = <<>> \/ episode = <<>>
            THEN TvNone
            ELSE TvReturn(Str(show_name), Str(season), Str(episode), Str(episode_name))

\* info.py:99-101  except Exception: return None, None, None, None
parse_tv_show_filename(i) ==
    LET r == parse_tv_show_try(i)
    IN IF r.raised THEN TvNone ELSE r

(***************************************************************************)
(* is_movie (info.py:103-108), is_tv_show (info.py:110-116)                *)
(* A result is [called, raised, value].                                    *)
(***************************************************************************)
BoolNotCalled == [called |-> FALSE, raised |-> FALSE, value |-> FALSE]

is_movie(i) ==
    LET r == parse_movie_filename(i)
    IN [called |-> TRUE, raised |-> r.raised,
        value |-> ~r.raised /\ ~r.movie_name.none /\ ~r.year.none]

is_tv_show(i) ==
    LET r == parse_tv_show_filename(i)
    IN [called |-> TRUE, raised |-> r.raised,
        value |-> ~r.raised /\ Truthy(r.show_name) /\ Truthy(r.season) /\ Truthy(r.episode)]

CallsIdle ==
    /\ movie_result = MovieNotCalled
    /\ tv_result = TvNotCalled
    /\ is_movie_result = BoolNotCalled
    /\ is_tv_show_result = BoolNotCalled

(***************************************************************************)
(* Paths (pathlib.Path): a path is the sequence of its segments            *)
(***************************************************************************)
\* Path.__truediv__ with a str: an empty or "." segment adds nothing
JoinPath(p, seg) == IF seg = <<>> \/ seg = <<".">> THEN p ELSE Append(p, seg)

PathName(p) == p[Len(p)]

RECURSIVE LastDot(_)
\* str.rfind('.'), 1-based; 0 when there is no dot
LastDot(s) ==
    IF s = <<>> THEN 0
    ELSE IF s[Len(s)] = "." THEN Len(s)
    ELSE LastDot(SubSeq(s, 1, Len(s) - 1))

\* PurePath.suffix: from the last dot, unless it is the first or last character
Suffix(nm) ==
    LET i == LastDot(nm)
    IN IF 1 < i /\ i < Len(nm) THEN SubSeq(nm, i, Len(nm)) ELSE <<>>

\* PurePath.with_suffix(suffix) of a path whose name is not empty
WithSuffix(p, suffix) ==
    LET nm == PathName(p)
        old == Suffix(nm)
        stem == SubSeq(nm, 1, Len(nm) - Len(old))
    IN [p EXCEPT ![Len(p)] = stem \o suffix]

UpperLetters == <<"A","B","C","D","E","F","G","H","I","J","K","L","M",
                  "N","O","P","Q","R","S","T","U","V","W","X","Y","Z">>

LowerLetters == <<"a","b","c","d","e","f","g","h","i","j","k","l","m",
                  "n","o","p","q","r","s","t","u","v","w","x","y","z">>

\* str.lower()
Lower(s) ==
    [i \in 1..Len(s) |->
        IF \E k \in 1..26 : UpperLetters[k] = s[i]
        THEN LowerLetters[CHOOSE k \in 1..26 : UpperLetters[k] = s[i]]
        ELSE s[i]]

Mp4 == <<".", "m", "p", "4">>

MoviesSegment == <<"M", "o", "v", "i", "e", "s">>

TvShowsSegment == <<"T", "V", " ", "S", "h", "o", "w", "s">>

SeasonPrefix == <<"S", "e", "a", "s", "o", "n", " ">>

EpisodePrefix == <<"E", "p", "i", "s", "o", "d", "e", " ">>

\* Path(output_base_dir)
output_base_path == << <<"o", "u", "t">> >>

(***************************************************************************)
(* Destination planning (info.py:485-491, 516-522, 645-647, 663-665)       *)
(***************************************************************************)
\* a slip that builds the directory from the unsanitized title
MovieDir_Raw(movie_name) ==
    JoinPath(JoinPath(output_base_path, MoviesSegment), movie_name)

\* info.py:486, 645
MovieDir(movie_name) ==
    JoinPath(JoinPath(output_base_path, MoviesSegment), sanitize_filename(movie_name))

\* info.py:517, 663
TvDir(show_name, season) ==
    JoinPath(JoinPath(JoinPath(output_base_path, TvShowsSegment),
                      sanitize_filename(show_name)),
             SeasonPrefix \o season)

\* info.py:490-491
process_directory_movie_file(movie_name, file_ext) ==
    JoinPath(MovieDir(movie_name), sanitize_filename(movie_name) \o file_ext)

\* a slip that leaves the episode number out of the filename
process_directory_tv_file_NoNumber(show_name, season, episode, episode_name, file_ext) ==
    JoinPath(TvDir(show_name, season),
             sanitize_filename(episode_name) \o file_ext)

\* info.py:521-522
process_directory_tv_file(show_name, season, episode, episode_name, file_ext) ==
    JoinPath(TvDir(show_name, season),
             zfill(episode, PadWidth) \o <<" ">> \o sanitize_filename(episode_name)
                 \o file_ext)

\* info.py:647
convert_file_movie_file(movie_name) ==
    JoinPath(MovieDir(movie_name), sanitize_filename(movie_name) \o Mp4)

\* info.py:665  episode_name or 'Episode ' + episode
convert_file_tv_file(show_name, season, episode, episode_name) ==
    LET shown == IF episode_name # <<>> THEN episode_name ELSE EpisodePrefix \o episode
    IN JoinPath(TvDir(show_name, season),
                zfill(episode, PadWidth) \o <<" ">> \o sanitize_filename(shown) \o Mp4)

\* the identity the entry points act on: is_movie first, then is_tv_show
\* (info.py:478-480, 509-511, 641-642, 659-660)
Identity(i) ==
    IF is_movie(i).value
    THEN LET m == parse_movie_filename(i)
         IN [kind |-> "movie", title |-> m.movie_name.s, year |-> m.year.s,
             season |-> <<>>, episode |-> <<>>, episode_name |-> <<>>]
    ELSE IF is_tv_show(i).value
    THEN LET e == parse_tv_show_filename(i)
         IN [kind |-> "episode", title |-> e.show_name.s, year |-> <<>>,
             season |-> e.season.s, episode |-> e.episode.s,
             episode_name |-> e.episode_name.s]
    ELSE [kind |-> "none", title |-> <<>>, year |-> <<>>,
          season |-> <<>>, episode |-> <<>>, episode_name |-> <<>>]

\* the directory an entry point plans for an identity
PlannedDir(id) ==
    IF id.kind = "movie" THEN MovieDir(id.title) ELSE TvDir(id.title, id.season)

\* the file path an entry point plans for an identity; file_ext is
\* media_file.suffix.lower() (info.py:476)
PlannedFile(e, id, suffix) ==
    IF e = "process_directory"
    THEN IF id.kind = "movie"
         THEN process_directory_movie_file(id.title, Lower(suffix))
         ELSE process_directory_tv_file(id.title, id.season, id.episode,
                                        id.episode_name, Lower(suffix))
    ELSE IF id.kind = "movie"
         THEN convert_file_movie_file(id.title)
         ELSE convert_file_tv_file(id.title, id.season, id.episode, id.episode_name)

\* a slip that leaves the with_suffix of line 426 out
process_file_destination_Keep(destination_path) == destination_path

\* info.py:426  destination_path.with_suffix('.mp4')
process_file_destination(destination_path) == WithSuffix(destination_path, Mp4)

\* mkdir(parents=True, exist_ok=True): the directory and its ancestors
Ancestors(p) == {SubSeq(p, 1, k) : k \in 1..Len(p)}

PipeIdle ==
    /\ entry = "none"
    /\ source_suffix = <<>>
    /\ pc = "idle"
    /\ destination_dir = <<>>
    /\ destination_file = <<>>
    /\ made_dirs = {}
    /\ ffmpeg_dest = <<>>
    /\ written = {}
    /\ temp_cover = FALSE
    /\ result = "none"

OtherIdle ==
    /\ other_info = NoInfo
    /\ other_destination_file = <<>>
    /\ other_ffmpeg_dest = <<>>

RunIdle ==
    /\ source_path = <<>>
    /\ log = <<>>
    /\ ffmpeg_calls = {}

BatchIdle ==
    /\ media_files = <<>>
    /\ position = 0
    /\ outcomes = <<>>

TreeIdle ==
    /\ tree = <<>>
    /\ input_kind = "none"

WebIdle ==
    /\ generators = <<>>
    /\ web_output = "none"

(***************************************************************************)
(* Bounds and input sets                                                   *)
(***************************************************************************)
MaxLen == 4

\* a letter, a digit, the dot, the space, a whitespace character outside the
\* allow-list, and two disallowed characters
SanitizeChars == {"a", "1", ".", " ", "\t", ":", "/"}

SanitizeInputs == StringsUpTo(SanitizeChars, MaxLen)

\* longest title the oracle returns
TitleLen == 2

\* largest season or episode number the oracle returns
MaxNum == 100

\* a letter, the dot (a separator in release names) and the space
ClassifyChars == {"a", ".", " "}

YearVals == {Absent, StrVal(<<>>), IntVal(2010)}

AllNums == {Absent} \cup {IntVal(n) : n \in 0..MaxNum}

FewNums == {Absent, IntVal(7)}

\* season and episode: one of the two ranges over every number
NumPairs == (AllNums \X FewNums) \cup (FewNums \X AllNums)

TitleValsOver(chars) == {Absent} \cup {StrVal(s) : s \in StringsUpTo(chars, TitleLen)}

EpisodeTitleVals == {Absent, StrVal(<<>>), StrVal(<<"a", ".", "b", " ">>)}

MovieInfos(titles) ==
    {[raises |-> FALSE, type |-> "movie", title |-> t, year |-> y,
      season |-> Absent, episode |-> Absent, episode_title |-> Absent] :
        t \in titles, y \in YearVals}

EpisodeInfos(titles, pairs, eptitles) ==
    {[raises |-> FALSE, type |-> "episode", title |-> t, year |-> Absent,
      season |-> p[1], episode |-> p[2], episode_title |-> e] :
        t \in titles, p \in pairs, e \in eptitles}

\* guessit raising, and a guess that is neither a movie nor an episode
OtherInfos ==
    {[raises |-> r, type |-> "other", title |-> t, year |-> Absent,
      season |-> Absent, episode |-> Absent, episode_title |-> Absent] :
        r \in BOOLEAN, t \in {Absent, StrVal(<<"a">>)}}

\* a letter, the dot, the space and a character outside the allow-list
TitleChars == {"a", ".", " ", ":"}

PipeEpisodeTitleVals ==
    {Absent, StrVal(<<>>), StrVal(<<"a">>), StrVal(<<":">>),
     StrVal(<<"a", ".", ":", "b">>)}

\* the oracle outcomes the pipeline is run on
PipeInfos ==
    MovieInfos(TitleValsOver(TitleChars))
        \cup EpisodeInfos(TitleValsOver(TitleChars), FewNums \X FewNums,
                          PipeEpisodeTitleVals)
        \cup OtherInfos

\* suffixes of candidate media files (web.py:10), in the case found on disk
SourceSuffixes ==
    {<<".", "m", "p", "4">>, <<".", "M", "K", "V">>, <<".", "a", "v", "i">>}

\* longest title of the guesses planned in pairs
CollideLen == 2

CollideChars == {"a", ":"}

CollideTitleVals == {StrVal(s) : s \in StringsUpTo(CollideChars, CollideLen)}

CollideNums == {IntVal(1), IntVal(11)}

\* the oracle outcomes planned in pairs
CollideInfos ==
    {i \in MovieInfos(CollideTitleVals) : i.year = IntVal(2010)}
        \cup EpisodeInfos(CollideTitleVals, CollideNums \X CollideNums,
                          {Absent, StrVal(<<"a">>)})

ClassifyInfos ==
    MovieInfos(TitleValsOver(ClassifyChars))
        \cup EpisodeInfos(TitleValsOver(ClassifyChars), NumPairs, EpisodeTitleVals)
        \cup OtherInfos

(***************************************************************************)
(* SpecSanitize: sanitize_filename applied to every bounded string, and    *)
(* applied again to its own result                                         *)
(***************************************************************************)
SanIdle == name = <<>> /\ sanitized = None /\ resanitized = None

InitSanitize ==
    /\ name \in SanitizeInputs
    /\ sanitized = None
    /\ resanitized = None
    /\ info = NoInfo
    /\ CallsIdle
    /\ PipeIdle
    /\ OtherIdle
    /\ RunIdle
    /\ TreeIdle
    /\ BatchIdle
    /\ WebIdle

Sanitize ==
    /\ sanitized = None
    /\ sanitized' = Str(sanitize_filename(name))
    /\ UNCHANGED <<name, resanitized, info, callVars, pipeVars, otherVars, runVars, treeVars, batchVars, webVars>>

SanitizeAgain ==
    /\ sanitized # None
    /\ resanitized = None
    /\ resanitized' = Str(sanitize_filename(sanitized.s))
    /\ UNCHANGED <<name, sanitized, info, callVars, pipeVars, otherVars, runVars, treeVars, batchVars, webVars>>

NextSanitize == Sanitize \/ SanitizeAgain

SpecSanitize == InitSanitize /\ [][NextSanitize]_vars

(***************************************************************************)
(* SpecClassify: one call of one of the four classification functions on   *)
(* every bounded oracle outcome                                            *)
(***************************************************************************)
InitClassify ==
    /\ SanIdle
    /\ info \in ClassifyInfos
    /\ CallsIdle
    /\ PipeIdle
    /\ OtherIdle
    /\ RunIdle
    /\ TreeIdle
    /\ BatchIdle
    /\ WebIdle

CallParseMovie ==
    /\ CallsIdle
    /\ movie_result' = parse_movie_filename(info)
    /\ UNCHANGED <<sanVars, info, pipeVars, otherVars, runVars, treeVars, batchVars, webVars, tv_result, is_movie_result, is_tv_show_result>>

CallParseTvShow ==
    /\ CallsIdle
    /\ tv_result' = parse_tv_show_filename(info)
    /\ UNCHANGED <<sanVars, info, pipeVars, otherVars, runVars, treeVars, batchVars, webVars, movie_result, is_movie_result, is_tv_show_result>>

CallIsMovie ==
    /\ CallsIdle
    /\ is_movie_result' = is_movie(info)
    /\ UNCHANGED <<sanVars, info, pipeVars, otherVars, runVars, treeVars, batchVars, webVars, movie_result, tv_result, is_tv_show_result>>

CallIsTvShow ==
    /\ CallsIdle
    /\ is_tv_show_result' = is_tv_show(info)
    /\ UNCHANGED <<sanVars, info, pipeVars, otherVars, runVars, treeVars, batchVars, webVars, movie_result, tv_result, is_movie_result>>

NextClassify == CallParseMovie \/ CallParseTvShow \/ CallIsMovie \/ CallIsTvShow

SpecClassify == InitClassify /\ [][NextClassify]_vars

\* Path(input_dir)
input_path == << <<"i", "n">> >>

\* a file of the given suffix below the input directory
InputFile(suffix) == JoinPath(input_path, <<"f">> \o suffix)

\* where the file at hand may lie: below the input directory, or (the input
\* being below the output root) at the very path the entry point plans for it
SourcePaths(e, i, suffix) ==
    {InputFile(suffix)}
        \cup IF Identity(i).kind = "none" THEN {}
             ELSE LET d == process_file_destination(PlannedFile(e, Identity(i), suffix))
                  IN IF Suffix(PathName(d)) = suffix THEN {d} ELSE {}

(***************************************************************************)
(* Spec: one file taken through an entry point.  process_directory         *)
(* (info.py:473-544) handles it in one iteration of its loop; convert_file *)
(* (info.py:634-679) is a generator whose body runs when it is iterated.   *)
(***************************************************************************)
Init ==
    /\ SanIdle
    /\ info \in PipeInfos
    /\ CallsIdle
    /\ entry \in {"process_directory", "convert_file"}
    /\ source_suffix \in SourceSuffixes
    /\ pc = "start"
    /\ destination_dir = <<>>
    /\ destination_file = <<>>
    /\ made_dirs = {}
    /\ ffmpeg_dest = <<>>
    /\ written = {}
    /\ temp_cover = FALSE
    /\ result = "none"
    /\ OtherIdle
    /\ source_path \in SourcePaths(entry, info, source_suffix)
    /\ log = <<>>
    /\ ffmpeg_calls = {}
    /\ TreeIdle
    /\ BatchIdle
    /\ WebIdle

\* info.py:478-483, 509-514, 541-542 and 641-644, 659-662, 677:
\* is_movie, else is_tv_show, then the parse function again; a file that is
\* neither is skipped
Classify ==
    /\ pc = "start"
    /\ is_movie_result' = is_movie(info)
    /\ IF is_movie(info).value
       THEN /\ movie_result' = parse_movie_filename(info)
            /\ pc' = IF Truthy(movie_result'.movie_name) /\ Truthy(movie_result'.year)
                     THEN "classified" ELSE "done"
            /\ UNCHANGED <<is_tv_show_result, tv_result>>
       ELSE /\ is_tv_show_result' = is_tv_show(info)
            /\ IF is_tv_show(info).value
               THEN /\ tv_result' = parse_tv_show_filename(info)
                    /\ pc' = IF Truthy(tv_result'.show_name) /\ Truthy(tv_result'.season)
                                  /\ Truthy(tv_result'.episode)
                             THEN "classified" ELSE "done"
               ELSE /\ pc' = "done"
                    /\ UNCHANGED tv_result
            /\ UNCHANGED movie_result
    /\ result' = IF pc' = "done" THEN "skipped" ELSE result
    /\ log' = Append(log, IF pc' = "done" THEN "unresolved" ELSE "classified")
    /\ UNCHANGED <<sanVars, info, otherVars, entry, source_suffix, destination_dir,
                   destination_file, made_dirs, ffmpeg_dest, written, temp_cover,
                   source_path, ffmpeg_calls, treeVars, batchVars, webVars>>

\* a planning that forms the paths and creates no directory
Plan_NoMkdir ==
    /\ pc = "classified"
    /\ destination_dir' = PlannedDir(Identity(info))
    /\ destination_file' = PlannedFile(entry, Identity(info), source_suffix)
    /\ pc' = "planned"
    /\ log' = Append(log, "planned")
    /\ UNCHANGED <<sanVars, info, callVars, otherVars, entry, source_suffix,
                   made_dirs, result, ffmpeg_dest, written, temp_cover,
                   source_path, ffmpeg_calls, treeVars, batchVars, webVars>>

\* info.py:486-491, 517-522, 645-647, 663-665: the directory is created and
\* the file path formed; an OSError of mkdir ends the file in the handler of
\* line 543 / 678
Plan ==
    /\ pc = "classified"
    /\ destination_dir' = PlannedDir(Identity(info))
    /\ \E mkdir_ok \in BOOLEAN :
        IF mkdir_ok
        THEN /\ made_dirs' = made_dirs \cup Ancestors(destination_dir')
             /\ destination_file' = PlannedFile(entry, Identity(info), source_suffix)
             /\ pc' = "planned"
             /\ log' = Append(log, "planned")
             /\ UNCHANGED result
        ELSE /\ pc' = "done"
             /\ result' = "error"
             /\ log' = Append(log, "exception")
             /\ UNCHANGED <<made_dirs, destination_file>>
    /\ UNCHANGED <<sanVars, info, callVars, otherVars, entry, source_suffix,
                   ffmpeg_dest, written, temp_cover,
                   source_path, ffmpeg_calls, treeVars, batchVars, webVars>>

\* a lookup whose empty answer is not tested: the file goes on to packaging
FetchMetadata_IgnoreMissing ==
    /\ pc = "planned"
    /\ \E answer \in {"found", "not_found", "raises"} :
        /\ pc' = IF answer = "raises" THEN "done" ELSE "fetched"
        /\ result' = IF answer = "raises" THEN "error" ELSE result
        /\ log' = Append(log, CASE answer = "found" -> "metadata"
                                 [] answer = "not_found" -> "metadata_missing"
                                 [] OTHER -> "exception")
    /\ UNCHANGED <<sanVars, info, callVars, otherVars, entry, source_suffix,
                   destination_dir, destination_file, made_dirs, ffmpeg_dest,
                   written, temp_cover,
                   source_path, ffmpeg_calls, treeVars, batchVars, webVars>>

\* info.py:494-497, 525-529, 649-650, 667-668: get_movie_info /
\* get_tv_show_info return a record, return None (the file is skipped), or
\* raise (TypeError on missing details, info.py:144-145, 177-178)
FetchMetadata ==
    /\ pc = "planned"
    /\ \E answer \in {"found", "not_found", "raises"} :
        /\ pc' = IF answer = "found" THEN "fetched" ELSE "done"
        /\ result' = CASE answer = "found" -> result
                       [] answer = "not_found" -> "skipped"
                       [] OTHER -> "error"
        /\ log' = Append(log, CASE answer = "found" -> "metadata"
                                 [] answer = "not_found" -> "metadata_missing"
                                 [] OTHER -> "exception")
    /\ UNCHANGED <<sanVars, info, callVars, otherVars, entry, source_suffix,
                   destination_dir, destination_file, made_dirs, ffmpeg_dest,
                   written, temp_cover,
                   source_path, ffmpeg_calls, treeVars, batchVars, webVars>>

\* info.py:499, 531, 651, 669: download_cover_art returns the temporary file
\* it wrote, or None
DownloadCoverArt ==
    /\ pc = "fetched"
    /\ \E downloaded \in BOOLEAN :
        /\ temp_cover' = downloaded
        /\ log' = Append(log, IF downloaded THEN "cover_art" ELSE "no_cover_art")
    /\ pc' = "downloaded"
    /\ UNCHANGED <<sanVars, info, callVars, otherVars, entry, source_suffix,
                   destination_dir, destination_file, made_dirs, ffmpeg_dest,
                   written, result,
                   source_path, ffmpeg_calls, treeVars, batchVars, webVars>>

\* info.py:500, 532, 652, 670: get_subtitle_streams returns the streams (an
\* empty list on the errors it handles) or raises what it does not handle
\* (ffprobe missing)
ProbeSubtitles ==
    /\ pc = "downloaded"
    /\ \E probed \in BOOLEAN :
        /\ pc' = IF probed THEN "probed" ELSE "done"
        /\ result' = IF probed THEN result ELSE "error"
        /\ log' = Append(log, IF probed THEN "probed" ELSE "exception")
    /\ UNCHANGED <<sanVars, info, callVars, otherVars, entry, source_suffix,
                   destination_dir, destination_file, made_dirs, ffmpeg_dest,
                   written, temp_cover,
                   source_path, ffmpeg_calls, treeVars, batchVars, webVars>>

\* info.py:407-411: what embed_metadata_with_ffmpeg logs after the command,
\* and info.py:428: what process_file logs after embed_metadata_with_ffmpeg
\* returned
process_file_log(ffmpeg_ok) ==
    <<"ffmpeg", IF ffmpeg_ok THEN "embedded" ELSE "ffmpeg_failed",
      "processed_successfully">>

\* info.py:413-428 process_file: the destination gets the suffix .mp4 and
\* ffmpeg is run with the source as input and the destination as output
\* (info.py:398, 406); a failure of ffmpeg is logged inside
\* embed_metadata_with_ffmpeg (info.py:408-411), which returns normally
Package ==
    /\ pc = "probed"
    /\ ffmpeg_dest' = process_file_destination(destination_file)
    /\ ffmpeg_calls' = ffmpeg_calls \cup {[source |-> source_path, dest |-> ffmpeg_dest']}
    /\ \E ffmpeg_ok \in BOOLEAN :
        /\ written' = IF ffmpeg_ok THEN written \cup {ffmpeg_dest'} ELSE written
        /\ log' = log \o process_file_log(ffmpeg_ok)
    /\ pc' = "packaged"
    /\ UNCHANGED <<sanVars, info, callVars, otherVars, entry, source_suffix,
                   destination_dir, destination_file, made_dirs, temp_cover, result,
                   source_path, treeVars, batchVars, webVars>>

\* info.py:506-507, 538-539, 654-657, 672-675: the cover art file is
\* removed; convert_file then yields "complete" and returns its
\* "Successfully converted" text
Cleanup ==
    /\ pc = "packaged"
    /\ temp_cover' = FALSE
    /\ pc' = "done"
    /\ result' = "processed"
    /\ log' = log \o (IF entry = "convert_file"
                       THEN <<"cleanup", "complete", "successfully_converted">>
                       ELSE <<"cleanup">>)
    /\ UNCHANGED <<sanVars, info, callVars, otherVars, entry, source_suffix,
                   destination_dir, destination_file, made_dirs, ffmpeg_dest, written,
                   source_path, ffmpeg_calls, treeVars, batchVars, webVars>>

Next ==
    \/ Classify
    \/ Plan
    \/ FetchMetadata
    \/ DownloadCoverArt
    \/ ProbeSubtitles
    \/ Package
    \/ Cleanup

Spec == Init /\ [][Next]_vars

(***************************************************************************)
(* SpecCollide: two files planned by the same entry point, under the same  *)
(* output root and with the same source suffix                             *)
(***************************************************************************)
InitCollide ==
    /\ SanIdle
    /\ CallsIdle
    /\ info \in CollideInfos
    /\ other_info \in CollideInfos
    /\ entry \in {"process_directory", "convert_file"}
    /\ source_suffix \in SourceSuffixes
    /\ pc = "idle"
    /\ destination_dir = <<>>
    /\ destination_file = <<>>
    /\ made_dirs = {}
    /\ ffmpeg_dest = <<>>
    /\ written = {}
    /\ temp_cover = FALSE
    /\ result = "none"
    /\ other_destination_file = <<>>
    /\ other_ffmpeg_dest = <<>>
    /\ RunIdle
    /\ TreeIdle
    /\ BatchIdle
    /\ WebIdle

\* the planning of info.py:486-491, 517-522, 645-647, 663-665 and the
\* with_suffix of process_file (info.py:426), for both files
PlanBoth ==
    /\ destination_file = <<>>
    /\ Identity(info).kind # "none"
    /\ Identity(other_info).kind # "none"
    /\ destination_file' = PlannedFile(entry, Identity(info), source_suffix)
    /\ ffmpeg_dest' = process_file_destination(destination_file')
    /\ other_destination_file' = PlannedFile(entry, Identity(other_info), source_suffix)
    /\ other_ffmpeg_dest' = process_file_destination(other_destination_file')
    /\ UNCHANGED <<sanVars, info, callVars, other_info, entry, source_suffix, pc,
                   destination_dir, made_dirs, written, temp_cover, result,
                   runVars, treeVars, batchVars, webVars>>

NextCollide == PlanBoth

SpecCollide == InitCollide /\ [][NextCollide]_vars

(***************************************************************************)
(* Directory entries and globbing (info.py:464-467)                        *)
(***************************************************************************)
\* '*' of a glob pattern
Star == [star |-> TRUE, chars |-> {}]

\* a character, or a class such as [Mm], of a glob pattern
OneOf(cs) == [star |-> FALSE, chars |-> cs]

\* '*.[Mm][Pp]4'
PatternMp4 == <<Star, OneOf({"."}), OneOf({"M", "m"}), OneOf({"P", "p"}), OneOf({"4"})>>

\* '*.[Mm][Kk][Vv]'
PatternMkv == <<Star, OneOf({"."}), OneOf({"M", "m"}), OneOf({"K", "k"}), OneOf({"V", "v"})>>

RECURSIVE GlobMatch(_, _)
\* whether the whole name matches the pattern, as pathlib matches the last
\* component of an rglob pattern against an entry's name
GlobMatch(nm, pat) ==
    IF pat = <<>> THEN nm = <<>>
    ELSE IF Head(pat).star
         THEN GlobMatch(nm, Tail(pat)) \/ (nm # <<>> /\ GlobMatch(Tail(nm), pat))
         ELSE /\ nm # <<>>
              /\ Head(nm) \in Head(pat).chars
              /\ GlobMatch(Tail(nm), Tail(pat))

\* list(path.rglob(pattern)): the entries below the directory whose name
\* matches, files and directories alike
rglob(entries, pat) ==
    SelectSeq(entries, LAMBDA e : GlobMatch(PathName(e.path), pat))

\* a discovery that looks for .mp4 only
discovered_Mp4Only(kind, entries) ==
    IF kind = "directory" THEN rglob(entries, PatternMp4) ELSE entries

\* info.py:464-467: the media_files of process_directory
discovered(kind, entries) ==
    IF kind = "directory"
    THEN rglob(entries, PatternMp4) \o rglob(entries, PatternMkv)
    ELSE entries

\* the k-th entry found below the input directory, in a subdirectory of its own
EntryAt(k, e) ==
    [path |-> JoinPath(JoinPath(input_path, NatToStr(k)), e.name),
     is_dir |-> e.is_dir, info |-> e.info]

\* the listings of n entries drawn from a set of named entries
TreesOver(entries, n) ==
    {[k \in 1..n |-> EntryAt(k, choice[k])] : choice \in [1..n -> entries]}

(***************************************************************************)
(* SpecBatch: process_directory (info.py:453-544) on a directory listing   *)
(* or on a single file                                                     *)
(***************************************************************************)
MaxFiles == 2

BatchMovie ==
    [raises |-> FALSE, type |-> "movie", title |-> StrVal(<<"a">>),
     year |-> IntVal(2010), season |-> Absent, episode |-> Absent,
     episode_title |-> Absent]

BatchEpisode ==
    [raises |-> FALSE, type |-> "episode", title |-> StrVal(<<"b">>),
     year |-> Absent, season |-> IntVal(7), episode |-> IntVal(7),
     episode_title |-> StrVal(<<"a">>)]

BatchOther ==
    [raises |-> FALSE, type |-> "other", title |-> Absent, year |-> Absent,
     season |-> Absent, episode |-> Absent, episode_title |-> Absent]

\* named files and what guessit does for each name
BatchEntries ==
    {[name |-> <<"m", ".", "m", "p", "4">>, is_dir |-> FALSE, info |-> BatchMovie],
     [name |-> <<"e", ".", "M", "K", "V">>, is_dir |-> FALSE, info |-> BatchEpisode],
     [name |-> <<"o", ".", "m", "k", "v">>, is_dir |-> FALSE, info |-> BatchOther],
     [name |-> <<"x", ".", "a", "v", "i">>, is_dir |-> FALSE, info |-> BatchMovie]}

InitBatch ==
    /\ SanIdle
    /\ info = NoInfo
    /\ CallsIdle
    /\ entry = "process_directory"
    /\ source_suffix = <<>>
    /\ pc = "listing"
    /\ destination_dir = <<>>
    /\ destination_file = <<>>
    /\ made_dirs = {}
    /\ ffmpeg_dest = <<>>
    /\ written = {}
    /\ temp_cover = FALSE
    /\ result = "none"
    /\ OtherIdle
    /\ RunIdle
    /\ \/ /\ input_kind = "directory"
          /\ tree \in UNION {TreesOver(BatchEntries, n) : n \in 0..MaxFiles}
       \/ /\ input_kind = "file"
          /\ tree \in TreesOver(BatchEntries, 1)
    /\ BatchIdle
    /\ WebIdle

\* the loop variable takes the file: the names bound at info.py:475-476 and
\* everything the iteration computes start afresh; the directories made and
\* the files written stay
LoadFile(f) ==
    /\ info' = f.info
    /\ source_path' = f.path
    /\ source_suffix' = Suffix(PathName(f.path))
    /\ movie_result' = MovieNotCalled
    /\ tv_result' = TvNotCalled
    /\ is_movie_result' = BoolNotCalled
    /\ is_tv_show_result' = BoolNotCalled
    /\ destination_dir' = <<>>
    /\ destination_file' = <<>>
    /\ ffmpeg_dest' = <<>>
    /\ temp_cover' = FALSE
    /\ result' = "none"
    /\ log' = <<>>
    /\ pc' = "start"

\* info.py:464-473: the files are listed; with none the call returns, else
\* the loop starts with the first
Discover ==
    /\ pc = "listing"
    /\ media_files' = discovered(input_kind, tree)
    /\ IF media_files' = <<>>
       THEN /\ pc' = "returned"
            /\ UNCHANGED <<info, callVars, source_suffix, destination_dir,
                           destination_file, ffmpeg_dest, temp_cover, result,
                           source_path, log, position>>
       ELSE /\ position' = 1
            /\ LoadFile(media_files'[1])
    /\ UNCHANGED <<sanVars, otherVars, entry, made_dirs, written, ffmpeg_calls,
                   outcomes, treeVars, webVars>>

\* the loop goes on with the next file
Advance ==
    /\ outcomes' = Append(outcomes, result)
    /\ position' = position + 1
    /\ LoadFile(media_files[position + 1])
    /\ UNCHANGED <<sanVars, otherVars, entry, made_dirs, written, ffmpeg_calls,
                   media_files, treeVars, webVars>>

\* the loop is left and process_directory returns
Return ==
    /\ outcomes' = Append(outcomes, result)
    /\ pc' = "returned"
    /\ UNCHANGED <<sanVars, info, callVars, otherVars, entry, source_suffix,
                   destination_dir, destination_file, made_dirs, ffmpeg_dest,
                   written, temp_cover, result, runVars, media_files, position,
                   treeVars, webVars>>

\* a handler around the loop instead of inside it: an exception ends the call
NextFile_StopOnError ==
    /\ pc = "done"
    /\ 0 < position /\ position < Len(media_files)
    /\ IF result = "error" THEN Return ELSE Advance

\* info.py:473, 483, 497, 514, 529, 542-544: a file ended, by a continue,
\* by the end of the loop body or in the handler of line 543, and there is a
\* file after it
NextFile ==
    /\ pc = "done"
    /\ 0 < position /\ position < Len(media_files)
    /\ Advance

\* info.py:473: the last file ended
EndOfFiles ==
    /\ pc = "done"
    /\ 0 < position /\ position = Len(media_files)
    /\ Return

NextBatch == Discover \/ Next \/ NextFile \/ EndOfFiles

SpecBatch == InitBatch /\ [][NextBatch]_vars

(***************************************************************************)
(* SpecDiscover: the listing of process_directory (info.py:464-473) on     *)
(* directories holding names of many shapes                                *)
(***************************************************************************)
\* a file of the given name, of no interest to the classifier
PlainFile(nm) == [name |-> nm, is_dir |-> FALSE, info |-> BatchOther]

\* media names in lower, upper and mixed case, the two suffixes of
\* VALID_EXTENSIONS the patterns lack, a name with the letters but no dot, a
\* name with a second suffix, a name that is nothing but ".mp4", and a
\* directory named like a media file
DiscoverEntries ==
    {PlainFile(<<"a", ".", "m", "p", "4">>),
     PlainFile(<<"a", ".", "M", "p", "4">>),
     PlainFile(<<"a", ".", "m", "k", "v">>),
     PlainFile(<<"a", ".", "M", "K", "V">>),
     PlainFile(<<"a", ".", "a", "v", "i">>),
     PlainFile(<<"a", ".", "m", "4", "v">>),
     PlainFile(<<"a", "m", "p", "4">>),
     PlainFile(<<"a", ".", "m", "p", "4", ".", "t">>),
     PlainFile(<<".", "m", "p", "4">>),
     [name |-> <<"d", ".", "m", "k", "v">>, is_dir |-> TRUE, info |-> BatchOther]}

InitDiscover ==
    /\ SanIdle
    /\ info = NoInfo
    /\ CallsIdle
    /\ entry = "process_directory"
    /\ source_suffix = <<>>
    /\ pc = "listing"
    /\ destination_dir = <<>>
    /\ destination_file = <<>>
    /\ made_dirs = {}
    /\ ffmpeg_dest = <<>>
    /\ written = {}
    /\ temp_cover = FALSE
    /\ result = "none"
    /\ OtherIdle
    /\ RunIdle
    /\ input_kind = "directory"
    /\ tree \in UNION {TreesOver(DiscoverEntries, n) : n \in 0..MaxFiles}
    /\ BatchIdle
    /\ WebIdle

NextDiscover == Discover

SpecDiscover == InitDiscover /\ [][NextDiscover]_vars

(***************************************************************************)
(* SpecWeb: the Convert button of the UI, convert_media (web.py:70-85)     *)
(***************************************************************************)
\* web.py:10
VALID_EXTENSIONS ==
    {<<".", "m", "k", "v">>, <<".", "a", "v", "i">>,
     <<".", "m", "p", "4">>, <<".", "m", "4", "v">>}

\* what the UI may find below the media directory: the files of BatchEntries,
\* an .m4v episode, a text file and a directory named like a media file
WebEntries ==
    BatchEntries
        \cup {[name |-> <<"e", ".", "m", "4", "v">>, is_dir |-> FALSE, info |-> BatchEpisode],
              [name |-> <<"n", ".", "t", "x", "t">>, is_dir |-> FALSE, info |-> BatchOther],
              [name |-> <<"d", ".", "m", "p", "4">>, is_dir |-> TRUE, info |-> BatchMovie]}

\* convert_file(path, output_directory): convert_file has yield statements
\* (info.py:643, 656, 661, 674), so the call makes a generator object and runs
\* nothing of the body; the body runs when the object is iterated
convert_file_call(f) == [file |-> f, state |-> "created"]

\* web.py:80-81: the items of path.rglob("*") that are files with a valid suffix
valid_items(entries) ==
    SelectSeq(entries, LAMBDA e : ~e.is_dir
                                  /\ Lower(Suffix(PathName(e.path))) \in VALID_EXTENSIONS)

InitWeb ==
    /\ SanIdle
    /\ info = NoInfo
    /\ CallsIdle
    /\ entry = "convert_media"
    /\ source_suffix = <<>>
    /\ pc = "selected"
    /\ destination_dir = <<>>
    /\ destination_file = <<>>
    /\ made_dirs = {}
    /\ ffmpeg_dest = <<>>
    /\ written = {}
    /\ temp_cover = FALSE
    /\ result = "none"
    /\ OtherIdle
    /\ RunIdle
    /\ \/ /\ input_kind = "none"
          /\ tree = <<>>
       \/ /\ input_kind = "file"
          /\ tree \in TreesOver({e \in WebEntries : ~e.is_dir}, 1)
       \/ /\ input_kind = "directory"
          /\ tree \in UNION {TreesOver(WebEntries, n) : n \in 0..MaxFiles}
    /\ BatchIdle
    /\ WebIdle

\* web.py:70-85: convert_media calls convert_file for the selected file, or
\* for each valid file below the selected directory, formats what the call
\* returned into its text and returns; it never iterates what it got
ConvertMedia ==
    /\ pc = "selected"
    /\ IF input_kind = "none"
       THEN /\ generators' = <<>>
            /\ web_output' = "please_select"
       ELSE IF input_kind = "file"
       THEN /\ generators' = <<convert_file_call(tree[1])>>
            /\ web_output' = "result"
       ELSE LET items == valid_items(tree)
            IN /\ generators' = [k \in 1..Len(items) |-> convert_file_call(items[k])]
               /\ web_output' = IF items = <<>> THEN "no_files" ELSE "results"
    /\ pc' = "returned"
    /\ UNCHANGED <<sanVars, info, callVars, otherVars, entry, source_suffix,
                   destination_dir, destination_file, made_dirs, ffmpeg_dest,
                   written, temp_cover, result, runVars, batchVars, treeVars>>

NextWeb == ConvertMedia

SpecWeb == InitWeb /\ [][NextWeb]_vars

(***************************************************************************)
(* Claims about sanitize_filename                                          *)
(***************************************************************************)
NoDoubleSpace(s) == \A i \in 1..(Len(s) - 1) : ~(s[i] = " " /\ s[i + 1] = " ")

NoOuterWhitespace(s) ==
    s # <<>> => (s[1] \notin Whitespace /\ s[Len(s)] \notin Whitespace)

OnlyAllowed(s) == \A i \in 1..Len(s) : s[i] \in valid_chars

AllDisallowed(s) == \A i \in 1..Len(s) : s[i] \notin valid_chars

\* C8: sanitize_filename returns a value for every input; the value holds only
\* allow-listed characters, no two adjacent spaces, and neither starts nor
\* ends with a space; the empty string and every string made only of
\* disallowed characters give the empty string.
C8_SanitizeOutputClean ==
    sanitized # None =>
        /\ OnlyAllowed(sanitized.s)
        /\ NoDoubleSpace(sanitized.s)
        /\ NoOuterWhitespace(sanitized.s)
        /\ (AllDisallowed(name) => sanitized.s = <<>>)

\* a string with disallowed characters around and inside it has been sanitized
C8_Witness ==
    /\ name = <<":", "a", "\t", "/">>
    /\ sanitized = Str(<<"a">>)

\* C9: sanitizing a sanitized string changes nothing.
C9_SanitizeIdempotent ==
    resanitized # None => resanitized = sanitized

\* a name that sanitization changed has been sanitized twice
C9_Witness ==
    /\ resanitized # None
    /\ sanitized.s # name
    /\ sanitized.s # <<>>

(***************************************************************************)
(* Claims about the classifier                                             *)
(***************************************************************************)
Unresolved == MovieReturn(None, None)

\* the guess title with every '.' replaced by a space and then trimmed
NormalTitle(i) == Strip(ReplaceDots(IF i.title.tag = "str" THEN i.title.s ELSE <<>>))

YearString(i) ==
    CASE i.year.tag = "int" -> NatToStr(i.year.n)
      [] i.year.tag = "str" -> i.year.s
      [] OTHER -> <<>>

RawTitleNonEmpty(i) == i.title.tag = "str" /\ i.title.s # <<>>

MovieGuessCalled == movie_result.called /\ ~info.raises /\ info.type = "movie"

\* C1 as stated: a movie guess whose title and year are non-empty gives the
\* Movie identity (title with dots replaced and trimmed, year as a string);
\* an empty or absent title or year gives Unresolved.
C1_Original ==
    MovieGuessCalled =>
        IF RawTitleNonEmpty(info) /\ YearString(info) # <<>>
        THEN movie_result = MovieReturn(Str(NormalTitle(info)), Str(YearString(info)))
        ELSE movie_result = Unresolved

\* C1 amended: a movie guess gives the Movie identity (title with dots replaced
\* and trimmed, year as a string) when that trimmed title and the year string
\* are both non-empty, and Unresolved otherwise: a title made only of dots and
\* whitespace counts as empty.
C1_MovieClassified ==
    MovieGuessCalled =>
        IF NormalTitle(info) # <<>> /\ YearString(info) # <<>>
        THEN movie_result = MovieReturn(Str(NormalTitle(info)), Str(YearString(info)))
        ELSE movie_result = Unresolved

\* a title with a dot and an outer space became a Movie identity
C1_Witness ==
    /\ MovieGuessCalled
    /\ info.title = StrVal(<<" ", "a">>)
    /\ movie_result = MovieReturn(Str(<<"a">>), Str(<<"2", "0", "1", "0">>))

EpisodeGuessCalled == tv_result.called /\ ~info.raises /\ info.type = "episode"

\* p is the decimal numeral of n, with zeros put before it up to width 2
PaddedNumeral(p, n) ==
    LET d == NatToStr(n)
    IN /\ Len(p) = (IF Len(d) < 2 THEN 2 ELSE Len(d))
       /\ SubSeq(p, Len(p) - Len(d) + 1, Len(p)) = d
       /\ \A k \in 1..(Len(p) - Len(d)) : p[k] = "0"
       /\ (n <= 99 => Len(p) = 2 /\ \A k \in 1..2 : p[k] \in Digits)

EpisodePadded ==
    /\ ~tv_result.show_name.none
    /\ tv_result.show_name.s = NormalTitle(info)
    /\ ~tv_result.season.none
    /\ PaddedNumeral(tv_result.season.s, info.season.n)
    /\ ~tv_result.episode.none
    /\ PaddedNumeral(tv_result.episode.s, info.episode.n)

\* C2 as stated: an episode guess with non-empty title, season and episode
\* gives an Episode identity whose season and episode are zero-padded to
\* width 2, two digits exactly for the numbers 0..99.
C2_Original ==
    (EpisodeGuessCalled /\ RawTitleNonEmpty(info)
        /\ info.season.tag = "int" /\ info.episode.tag = "int") => EpisodePadded

\* C2 amended: the same for an episode guess whose title is non-empty after
\* the dots are replaced and the result is trimmed.
C2_EpisodePadded ==
    (EpisodeGuessCalled /\ NormalTitle(info) # <<>>
        /\ info.season.tag = "int" /\ info.episode.tag = "int") => EpisodePadded

\* season 7 of a show was padded to "07" and episode 100 kept its three digits
C2_Witness ==
    /\ EpisodeGuessCalled
    /\ info.season = IntVal(7)
    /\ info.episode = IntVal(100)
    /\ tv_result.season = Str(<<"0", "7">>)
    /\ tv_result.episode = Str(<<"1", "0", "0">>)

\* C4: no call of the four functions raises; when the oracle raises, or gives
\* a kind other than the one asked for, the parse functions give Unresolved
\* and the predicates give False.
C4_ClassificationTotal ==
    /\ ~movie_result.raised /\ ~tv_result.raised
    /\ ~is_movie_result.raised /\ ~is_tv_show_result.raised
    /\ (movie_result.called /\ (info.raises \/ info.type # "movie")
            => movie_result = Unresolved)
    /\ (tv_result.called /\ (info.raises \/ info.type # "episode")
            => tv_result = TvNone)
    /\ (is_movie_result.called /\ (info.raises \/ info.type # "movie")
            => ~is_movie_result.value)
    /\ (is_tv_show_result.called /\ (info.raises \/ info.type # "episode")
            => ~is_tv_show_result.value)

\* the oracle raised under is_tv_show, which answered False
C4_Witness ==
    /\ info.raises
    /\ is_tv_show_result.called
    /\ ~is_tv_show_result.value

(***************************************************************************)
(* Claims about the pipeline                                               *)
(***************************************************************************)
Lacking(v) == v.tag = "absent" \/ (v.tag = "str" /\ v.s = <<>>)

MovieFieldLacking ==
    info.type = "movie" /\ (Lacking(info.title) \/ Lacking(info.year))

EpisodeTitleLacking == info.type = "episode" /\ Lacking(info.title)

EpisodeNumberLacking ==
    info.type = "episode" /\ (Lacking(info.season) \/ Lacking(info.episode))

\* the file was skipped with no identity built and nothing planned or run
SkippedUnresolved ==
    /\ pc = "done" /\ result = "skipped"
    /\ ~is_movie_result.value /\ ~is_tv_show_result.value
    /\ movie_result = MovieNotCalled /\ tv_result = TvNotCalled
    /\ destination_file = <<>> /\ ffmpeg_dest = <<>>

\* C3 as stated: a movie or episode guess that lacks a required field (title
\* or year; title, season or episode number) is Unresolved and its file is
\* skipped: no identity is built from it.
C3_Original ==
    (pc # "start" /\ ~info.raises
        /\ (MovieFieldLacking \/ EpisodeTitleLacking \/ EpisodeNumberLacking))
        => SkippedUnresolved

\* C3 amended: a movie guess that lacks its title or year, and an episode
\* guess that lacks its title, is Unresolved and its file is skipped; a
\* missing season or episode number is no incompleteness, it is taken as
\* "00"; every identity that is built has all its required fields non-empty.
C3_NoPartialIdentity ==
    /\ (pc # "start" /\ ~info.raises /\ (MovieFieldLacking \/ EpisodeTitleLacking))
            => SkippedUnresolved
    /\ movie_result.called
            => Truthy(movie_result.movie_name) /\ Truthy(movie_result.year)
    /\ tv_result.called
            => /\ Truthy(tv_result.show_name)
               /\ Truthy(tv_result.season)
               /\ Truthy(tv_result.episode)
               /\ (info.season = Absent => tv_result.season = Str(<<"0", "0">>))
               /\ (info.episode = Absent => tv_result.episode = Str(<<"0", "0">>))

\* an episode guess with an empty title and a season number was skipped
C3_Witness ==
    /\ pc = "done" /\ result = "skipped"
    /\ info.type = "episode"
    /\ info.title = StrVal(<<>>)
    /\ info.season = IntVal(7)

\* the extension the entry point plans with: the lower-cased source suffix in
\* process_directory, .mp4 in convert_file
PlannedExtension == IF entry = "process_directory" THEN Lower(source_suffix) ELSE Mp4

MovieTitle == sanitize_filename(movie_result.movie_name.s)

\* C5 as stated, for a title that sanitizes to a non-empty string: the output
\* file of a Movie is written at
\* root / "Movies" / sanitize(title) / (sanitize(title) + extension).
C5_Original ==
    (ffmpeg_dest # <<>> /\ is_movie_result.value /\ MovieTitle # <<>>) =>
        ffmpeg_dest =
            output_base_path \o <<MoviesSegment, MovieTitle, MovieTitle \o PlannedExtension>>

\* C5 amended: the output file of a Movie whose title sanitizes to a non-empty
\* string is written at root / "Movies" / sanitize(title) /
\* (sanitize(title) + ".mp4") in both entry points, whatever the extension of
\* the source file.
C5_MovieWrittenAsMp4 ==
    (ffmpeg_dest # <<>> /\ is_movie_result.value /\ MovieTitle # <<>>) =>
        /\ ffmpeg_dest = output_base_path \o <<MoviesSegment, MovieTitle, MovieTitle \o Mp4>>
        /\ written \subseteq {ffmpeg_dest}

\* process_directory has written the movie of an .MKV source as a.mp4
C5_Witness ==
    /\ entry = "process_directory"
    /\ source_suffix = <<".", "M", "K", "V">>
    /\ written = {output_base_path \o <<MoviesSegment, <<"a">>, <<"a", ".", "m", "p", "4">> >>}

\* the title shown in an episode's filename: the episode title, or
\* "Episode " + episode when the episode title is empty
ShownTitle ==
    IF tv_result.episode_name.s # <<>>
    THEN tv_result.episode_name.s
    ELSE EpisodePrefix \o tv_result.episode.s

\* C6: an Episode is planned at [root, "TV Shows", sanitize(show),
\* "Season " + season] with the filename episode + " " + sanitize(T) +
\* extension, T being the episode title or, when that is empty,
\* "Episode " + episode, in process_directory and in convert_file.
C6_EpisodePlanned ==
    (destination_file # <<>> /\ is_tv_show_result.value) =>
        /\ destination_dir =
              JoinPath(JoinPath(JoinPath(output_base_path, TvShowsSegment),
                                sanitize_filename(tv_result.show_name.s)),
                       SeasonPrefix \o tv_result.season.s)
        /\ destination_file =
              JoinPath(destination_dir,
                       tv_result.episode.s \o <<" ">> \o sanitize_filename(ShownTitle)
                           \o PlannedExtension)

CleanSegment(s) == OnlyAllowed(s) /\ NoDoubleSpace(s) /\ NoOuterWhitespace(s)

CleanBelowRoot(p) ==
    \A k \in (Len(output_base_path) + 1)..Len(p) : CleanSegment(p[k])

EpisodeKey(id) == <<sanitize_filename(id.title), id.season, id.episode>>

DistinctEpisodes ==
    /\ Identity(info).kind = "episode"
    /\ Identity(other_info).kind = "episode"
    /\ EpisodeKey(Identity(info)) # EpisodeKey(Identity(other_info))

DistinctMovies ==
    /\ Identity(info).kind = "movie"
    /\ Identity(other_info).kind = "movie"
    /\ sanitize_filename(Identity(info).title)
           # sanitize_filename(Identity(other_info).title)

SameSeasonOtherEpisode ==
    /\ DistinctEpisodes
    /\ sanitize_filename(Identity(info).title)
           = sanitize_filename(Identity(other_info).title)
    /\ Identity(info).season = Identity(other_info).season
    /\ Identity(info).episode # Identity(other_info).episode

\* C10: under the same root and extension, two Episodes that differ in
\* (sanitized show, season, episode), and two Movies whose titles sanitize to
\* different strings, get different destinations, planned and written; two
\* episodes of one show and season with different numbers get different
\* filenames.
C10_NoCollision ==
    destination_file # <<>> =>
        /\ (DistinctEpisodes \/ DistinctMovies)
              => /\ destination_file # other_destination_file
                 /\ ffmpeg_dest # other_ffmpeg_dest
        /\ SameSeasonOtherEpisode
              => /\ PathName(destination_file) # PathName(other_destination_file)
                 /\ PathName(ffmpeg_dest) # PathName(other_ffmpeg_dest)

\* episodes 01 and 11 of one show and season, with the same episode title,
\* were planned under titles that differ only by a stripped character
C10_Witness ==
    /\ destination_file # <<>>
    /\ SameSeasonOtherEpisode
    /\ info.title # other_info.title
    /\ info.episode_title = other_info.episode_title

(***************************************************************************)
(* Claims about the batch loop of process_directory                        *)
(***************************************************************************)
\* how a file ends that was not packaged: Unresolved or without metadata
\* ("skipped"), or with an exception ("error")
Failed(outcome) == outcome \in {"skipped", "error"}

\* C11: a per-file failure is never fatal to the batch.  When a file of the
\* list has ended, be it Unresolved, without metadata or with an exception,
\* and files remain after it, the step process_directory takes is to start
\* on the next file; so when the call has returned every file of the list
\* has been taken and has an outcome, the files after a failed one included.
C11_BatchContinues ==
    /\ [](pc = "returned" => Len(outcomes) = Len(media_files))
    /\ [][(pc = "done" /\ position < Len(media_files))
            => (pc' = "start" /\ position' = position + 1
                /\ source_path' = media_files[position + 1].path
                /\ outcomes' = Append(outcomes, result))]_vars

\* the call has returned, the first file of the list ended with an exception
\* and the file after it was packaged
C11_Witness ==
    /\ pc = "returned"
    /\ Len(outcomes) = 2
    /\ outcomes[1] = "error"
    /\ outcomes[2] = "processed"

(***************************************************************************)
(* Claims about one file going through an entry point                      *)
(***************************************************************************)
\* whether the event stands in the log of the file
Logged(event) == \E k \in 1..Len(log) : log[k] = event

\* the position of the event in the log, 0 when it is not there
LogIndex(event) ==
    IF Logged(event) THEN CHOOSE k \in 1..Len(log) : log[k] = event ELSE 0

\* C12: temporary artifacts are released.  When the entry point has finished
\* with a file for which cover art was downloaded to a temporary file, that
\* file has been removed, whether subtitle probing and packaging succeeded or
\* failed.
C12_TempReleased ==
    (pc = "done" /\ Logged("cover_art")) => ~temp_cover

\* C15: the packager always writes to a copy.  The output path of every
\* ffmpeg command run differs from its input path, and the source file is
\* never among the paths ffmpeg has written, also when the source lies at its
\* own planned destination below the output root.
C15_WritesToCopy ==
    /\ \A c \in ffmpeg_calls : c.dest # c.source
    /\ source_path \notin written

\* C16: per file the steps occur in the order classify, plan, fetch
\* metadata, package, cleanup.  ffmpeg is run for a file only after the file
\* was classified as Movie or Episode, its path planned and a metadata record
\* returned, in that order; the cleanup comes after the packaging; and ffmpeg
\* is never run for a file that is Unresolved or whose metadata was not found.
C16_StepOrder ==
    /\ Logged("ffmpeg") =>
          /\ 0 < LogIndex("classified")
          /\ LogIndex("classified") < LogIndex("planned")
          /\ LogIndex("planned") < LogIndex("metadata")
          /\ LogIndex("metadata") < LogIndex("ffmpeg")
    /\ Logged("cleanup") =>
          (Logged("ffmpeg") /\ LogIndex("ffmpeg") < LogIndex("cleanup"))
    /\ (Logged("unresolved") \/ Logged("metadata_missing")) =>
          (~Logged("ffmpeg") /\ ffmpeg_calls = {} /\ ffmpeg_dest = <<>>)
    /\ ffmpeg_calls # {} => Logged("ffmpeg")

\* a file has gone through all five steps
C16_Witness ==
    /\ pc = "done"
    /\ Logged("classified") /\ Logged("planned") /\ Logged("metadata")
    /\ Logged("ffmpeg") /\ Logged("cleanup")
    /\ ffmpeg_calls # {}

\* the entry point has ended with the file without packaging it and without
\* an exception
Skipped == pc = "done" /\ result = "skipped"

\* C17 as stated: when a file is skipped because it is Unresolved or because
\* the metadata lookup returned nothing, no file and no directory has been
\* created below the output root for it.
C17_Original ==
    Skipped => (written = {} /\ made_dirs = {})

\* C17: a skipped file leaves no file in the output tree.  When a file is
\* skipped, ffmpeg was not run and nothing was written for it; when it is
\* skipped as Unresolved no directory was created either; when it is skipped
\* because the lookup returned nothing, its planned destination directory
\* and the ancestors of that directory have been created, and nothing else.
C17_SkippedLeavesNoFile ==
    Skipped =>
        /\ written = {}
        /\ ffmpeg_calls = {}
        /\ Logged("unresolved") => made_dirs = {}
        /\ Logged("metadata_missing") =>
              (destination_dir # <<>> /\ made_dirs = Ancestors(destination_dir))
        /\ Logged("unresolved") \/ Logged("metadata_missing")

\* a file was skipped because the lookup returned nothing, and its
\* destination directory exists
C17_Witness ==
    /\ Skipped
    /\ Logged("metadata_missing")
    /\ destination_dir \in made_dirs

\* C18: success is reported only if packaging succeeded.  The "processed
\* successfully" log of process_file, and the "complete" event and the
\* "Successfully converted" result of convert_file, occur only for a file
\* whose ffmpeg command finished without error: its output was written and no
\* failure of ffmpeg was logged.
C18_SuccessMeansPackaged ==
    (Logged("processed_successfully") \/ Logged("complete")
        \/ Logged("successfully_converted")) =>
        (~Logged("ffmpeg_failed") /\ Logged("embedded") /\ ffmpeg_dest \in written)

(***************************************************************************)
(* Claims about the UI                                                     *)
(***************************************************************************)
\* the ffmpeg command the pipeline of convert_file runs for a file
PlannedCall(f) ==
    [source |-> f.path,
     dest |-> process_file_destination(
                  PlannedFile("convert_file", Identity(f.info),
                              Suffix(PathName(f.path))))]

\* C13: the Convert button runs the pipeline.  When convert_media has
\* returned, for every file it called convert_file for that classifies as
\* Movie or Episode, either ffmpeg was run on that file with its planned
\* destination, or the body of convert_file has run and ended without
\* packaging (as it does when the metadata lookup finds nothing).
C13_UiPackages ==
    pc = "returned" =>
        \A k \in 1..Len(generators) :
            Identity(generators[k].file.info).kind # "none" =>
                \/ PlannedCall(generators[k].file) \in ffmpeg_calls
                \/ generators[k].state = "finished"

(***************************************************************************)
(* Claims about the discovery of process_directory                         *)
(***************************************************************************)
\* the entries of a list, as a set
Elements(entries) == {entries[k] : k \in 1..Len(entries)}

\* whether the string ends in one of the given endings
EndsIn(s, endings) ==
    \E e \in endings :
        Len(e) <= Len(s) /\ SubSeq(s, Len(s) - Len(e) + 1, Len(s)) = e

MkvSuffix == <<".", "m", "k", "v">>

\* C14 as stated: given a directory, the candidates of process_directory are
\* exactly the files found whose extension, compared case-insensitively, is
\* one of .mp4, .mkv, .avi, .m4v.
C14_Original ==
    (pc # "listing" /\ input_kind = "directory") =>
        \A k \in 1..Len(tree) :
            tree[k] \in Elements(media_files)
                <=> (~tree[k].is_dir
                     /\ Lower(Suffix(PathName(tree[k].path))) \in VALID_EXTENSIONS)

\* C14: given a directory, the candidates of process_directory are exactly
\* the entries found whose name ends, compared case-insensitively, in .mp4
\* or .mkv; so every file with the extension .mp4 or .mkv is a candidate and
\* no file with the extension .avi or .m4v, or any other, is.
C14_Mp4AndMkvOnly ==
    (pc # "listing" /\ input_kind = "directory") =>
        /\ \A k \in 1..Len(tree) :
              tree[k] \in Elements(media_files)
                  <=> EndsIn(Lower(PathName(tree[k].path)), {Mp4, MkvSuffix})
        /\ \A k \in 1..Len(tree) :
              (~tree[k].is_dir
               /\ Lower(Suffix(PathName(tree[k].path))) \in {Mp4, MkvSuffix})
                  => tree[k] \in Elements(media_files)
        /\ \A k \in 1..Len(media_files) :
              Lower(Suffix(PathName(media_files[k].path)))
                  \notin (VALID_EXTENSIONS \ {Mp4, MkvSuffix})

\* a directory holding an upper-case .MKV file and an .avi file was listed:
\* the first is the only candidate
C14_Witness ==
    /\ pc # "listing"
    /\ input_kind = "directory"
    /\ Len(tree) = 2
    /\ PathName(tree[1].path) = <<"a", ".", "M", "K", "V">>
    /\ PathName(tree[2].path) = <<"a", ".", "a", "v", "i">>
    /\ media_files = <<tree[1]>>

====
